---- MODULE Spec2Model ----
(***************************************************************************)
(* Model of the network speed test: SpeedTestServer                        *)
(* (NetworkSpeedTest_Server.py) and SpeedTestClient                        *)
(* (NetworkSpeedTest_Client.py), with the constants of Constants.py.       *)
(*                                                                         *)
(* Time is counted in ticks of half a second, the greatest common unit of  *)
(* the program's timeouts (0.5 s, 1 s, 10 s).  A statement that does not   *)
(* block takes no time.                                                    *)
(***************************************************************************)
EXTENDS Integers, Sequences, FiniteSets, TLC

(***************************************************************************)
(* Constants.py                                                            *)
(***************************************************************************)
\* 0xabcddcba as its two 16-bit halves (0xabcd, 0xdcba)
MAGIC_COOKIE == <<43981, 56506>>
MSG_TYPE_OFFER == 2
MSG_TYPE_REQUEST == 3
MSG_TYPE_PAYLOAD == 4
\* 1.0 s, in ticks
UDP_TRANSFER_TIMEOUT == 2
TCP_RECEIVE_BUFFER_SIZE == 4096
UDP_PAYLOAD_SIZE == 1024
\* struct.calcsize of "!LBHH", "!LBQ", "!LBQQ"
OFFER_SIZE == 9
REQUEST_SIZE == 13
PAYLOAD_HEADER_SIZE == 21

(***************************************************************************)
(* Bounds of the model                                                     *)
(***************************************************************************)
\* broadcasts of the server the observer notes
MaxOffers == 3
\* chunks a lone TCP transfer of the client receives
MaxChunks == 3
\* largest file size a lone UDP transfer is started with
MaxFileSize == 3100
\* bytes of a TCP request line before its line terminator
MaxLine == 4
\* handler threads the two listening loops of the server start
MaxHandlers == 2
\* transfer threads of one speed test of the client (tcp_count + udp_count)
MaxThreads == 2
\* valid segments one UDP transfer of the client receives
MaxSegments == 2
\* ticks the quiet-period clock of a UDP transfer is followed for: one more
\* than a quiet period and a receive timeout
MaxQuiet == 2 * UDP_TRANSFER_TIMEOUT + 1

Min(a, b) == IF a < b THEN a ELSE b

RECURSIVE SumSeq(_)
SumSeq(s) == IF s = <<>> THEN 0 ELSE Head(s) + SumSeq(Tail(s))

\* ceil(a / b), by its defining property
CeilDiv(a, b) == CHOOSE n \in 0..a : n * b >= a /\ (n = 0 \/ (n - 1) * b < a)

VARIABLES
    \* the server process
    running,        \* SpeedTestServer.running
    serverMain,     \* position of the main thread in SpeedTestServer.start
    bcastLoop,      \* position of the broadcast_offers thread
    tcpLoop,        \* position of the listen_tcp thread
    udpLoop,        \* position of the listen_udp_requests thread
    tcpHandlers,    \* the handle_tcp_client threads, in spawn order
    udpHandlers,    \* the handle_udp_transfer threads, in spawn order
    logged,         \* the error lines the two listening loops have printed
    server_udp_port, \* SpeedTestServer.server_udp_port
    server_tcp_port, \* SpeedTestServer.server_tcp_port
    \* the client process
    file_size,      \* SpeedTestClient.file_size
    tcp_count,      \* SpeedTestClient.tcp_count
    udp_count,      \* SpeedTestClient.udp_count
    cpc,            \* position of the main thread in SpeedTestClient.run
    elapsed,        \* listen_for_offer: time.time() - start_time, in ticks
    waited,         \* ticks the main thread has been blocked in recvfrom
    data,           \* listen_for_offer: the datagram recvfrom returned
    offer,          \* run: what listen_for_offer returned
    threads,        \* start_speed_test: the threads list
    \* what an observer of the network has seen; no statement reads these
    offers,         \* the broadcasts attempted by broadcast_offers, oldest first
    seen,           \* the datagram the receive call under observation returned last
    delivered       \* the valid segments a UDP transfer has received, oldest first

loops == <<running, serverMain, bcastLoop, tcpLoop, udpLoop>>
svars == <<loops, tcpHandlers, udpHandlers, logged>>
cvars == <<file_size, tcp_count, udp_count, cpc, elapsed, waited, data, offer, threads>>
ports == <<server_udp_port, server_tcp_port>>
aux == <<offers, seen, delivered>>
vars == <<svars, cvars, ports, aux>>

\* SpeedTestServer.__init__: the ports get_free_port returned
Ports == {5001, 6001}

\* SpeedTestServer.__init__ and start: the three loops are running
ServerStarted ==
    /\ server_udp_port \in Ports
    /\ server_tcp_port \in Ports
    /\ running = TRUE
    /\ serverMain = "sleep"
    /\ bcastLoop = "loop"
    /\ tcpLoop = "accept"
    /\ udpLoop = "recv"
    /\ logged = {}

\* nothing has been observed yet
NothingSeen ==
    /\ offers = <<>>
    /\ seen = <<>>
    /\ delivered = <<>>

\* no server process
NoServer ==
    /\ server_udp_port = 0
    /\ server_tcp_port = 0
    /\ running = FALSE
    /\ serverMain = "absent"
    /\ bcastLoop = "absent"
    /\ tcpLoop = "absent"
    /\ udpLoop = "absent"
    /\ logged = {}
    /\ tcpHandlers = <<>>
    /\ udpHandlers = <<>>

\* no client process
NoClient ==
    /\ file_size = 1
    /\ tcp_count = 0
    /\ udp_count = 0
    /\ cpc = "absent"
    /\ elapsed = 0
    /\ waited = 0
    /\ data = <<>>
    /\ offer = <<>>
    /\ threads = <<>>

(***************************************************************************)
(* SpeedTestServer.handle_udp_transfer                                     *)
(***************************************************************************)
\* a mis-rounded segment count: one segment too many on exact multiples
TotalSegmentsAlwaysUp(size) == (size \div UDP_PAYLOAD_SIZE) + 1

TotalSegments(size) ==
    (size \div UDP_PAYLOAD_SIZE)
        + (IF size % UDP_PAYLOAD_SIZE # 0 THEN 1 ELSE 0)

\* payload length of the segment sent in iteration i (0-based)
DataThisSegment(size, i) ==
    Min(UDP_PAYLOAD_SIZE, size - (i * UDP_PAYLOAD_SIZE))

\* a numbering of the segments that starts at 0
CurrentSegZeroBased(i) == i

\* current_seg = i + 1
CurrentSeg(i) == i + 1

\* the thread as created by threading.Thread(target=handle_udp_transfer, ...)
NewUdpHandler(addr, size) ==
    [pc |-> "start", client_addr |-> addr, file_size |-> size,
     total_segments |-> 0, i |-> 0, sent |-> <<>>, failed |-> FALSE]

\* total_segments = ...; the for loop is entered
UdpComputeSegments(h) ==
    /\ h \in DOMAIN udpHandlers
    /\ udpHandlers[h].pc = "start"
    /\ udpHandlers' = [udpHandlers EXCEPT
            ![h].total_segments = TotalSegments(udpHandlers[h].file_size),
            ![h].pc = "loop"]
    /\ UNCHANGED <<loops, tcpHandlers, logged, cvars, ports, aux>>

\* a destination that is the same for every transfer
SendtoFirstClient(u) == "c1"

\* sendto(header + dummy_data, client_addr)
Sendto(u) == u.client_addr

\* one iteration of the for loop whose sendto succeeds
UdpSendSegment(h) ==
    /\ h \in DOMAIN udpHandlers
    /\ LET u == udpHandlers[h] IN
        /\ u.pc = "loop"
        /\ u.i < u.total_segments
        /\ udpHandlers' = [udpHandlers EXCEPT
                ![h].sent = Append(u.sent,
                    [to |-> Sendto(u), mc |-> MAGIC_COOKIE,
                     mt |-> MSG_TYPE_PAYLOAD, total |-> u.total_segments,
                     cur |-> CurrentSeg(u.i),
                     len |-> DataThisSegment(u.file_size, u.i)]),
                ![h].i = u.i + 1]
    /\ UNCHANGED <<loops, tcpHandlers, logged, cvars, ports, aux>>

\* one iteration whose sendto raises: logged, break
UdpSendFail(h) ==
    /\ h \in DOMAIN udpHandlers
    /\ LET u == udpHandlers[h] IN
        /\ u.pc = "loop"
        /\ u.i < u.total_segments
        /\ udpHandlers' = [udpHandlers EXCEPT ![h].failed = TRUE, ![h].pc = "done"]
    /\ UNCHANGED <<loops, tcpHandlers, logged, cvars, ports, aux>>

\* range(total_segments) is exhausted: "Transfer ... completed", return
UdpTransferDone(h) ==
    /\ h \in DOMAIN udpHandlers
    /\ LET u == udpHandlers[h] IN
        /\ u.pc = "loop"
        /\ u.i >= u.total_segments
        /\ udpHandlers' = [udpHandlers EXCEPT ![h].pc = "done"]
    /\ UNCHANGED <<loops, tcpHandlers, logged, cvars, ports, aux>>

UdpHandlerStep(h) ==
    \/ UdpComputeSegments(h)
    \/ UdpSendSegment(h)
    \/ UdpSendFail(h)
    \/ UdpTransferDone(h)

(***************************************************************************)
(* A lone UDP transfer: one handle_udp_transfer thread, spawned for a      *)
(* request of any file size.                                               *)
(***************************************************************************)
InitUdpSend ==
    /\ ServerStarted
    /\ server_udp_port = 5001
    /\ server_tcp_port = 6001
    /\ NothingSeen
    /\ NoClient
    /\ tcpHandlers = <<>>
    /\ \E fs \in 0..MaxFileSize : udpHandlers = <<NewUdpHandler("c1", fs)>>

NextUdpSend == UdpHandlerStep(1)

SpecUdpSend == InitUdpSend /\ [][NextUdpSend]_vars

PayloadLens(u) == [k \in 1..Len(u.sent) |-> u.sent[k].len]

\* C1: a UDP transfer that ends without a failed send has sent exactly
\* ceil(fileSize / 1024) segments whose payload lengths sum to fileSize;
\* every segment but the last carries 1024 bytes and the last carries
\* fileSize - (totalSegments - 1) * 1024 bytes.
C1_UdpSegmentation ==
    \A h \in DOMAIN udpHandlers :
        LET u == udpHandlers[h]
            n == CeilDiv(u.file_size, UDP_PAYLOAD_SIZE)
        IN  (u.pc = "done" /\ ~u.failed) =>
                /\ u.total_segments = n
                /\ Len(u.sent) = n
                /\ SumSeq(PayloadLens(u)) = u.file_size
                /\ \A k \in 1..Len(u.sent) :
                        u.sent[k].len =
                            IF k < n THEN UDP_PAYLOAD_SIZE
                            ELSE u.file_size - (n - 1) * UDP_PAYLOAD_SIZE
                /\ (u.file_size > 0 /\ u.file_size % UDP_PAYLOAD_SIZE = 0)
                        => u.sent[n].len = UDP_PAYLOAD_SIZE

\* a transfer of 2500 bytes has ended after 1024, 1024 and 452 bytes
C1_Witness ==
    \E h \in DOMAIN udpHandlers :
        /\ udpHandlers[h].pc = "done"
        /\ ~udpHandlers[h].failed
        /\ udpHandlers[h].file_size = 2500
        /\ PayloadLens(udpHandlers[h]) = <<1024, 1024, 452>>

(***************************************************************************)
(* SpeedTestServer.handle_tcp_client and send_tcp_data                     *)
(***************************************************************************)
\* chunk_size of send_tcp_data
TCP_CHUNK_SIZE == 4096

Digits == {"0", "4", "5", "6", "9"}
\* the bytes a peer may put on a connection before the line terminator
\* a byte that is not valid UTF-8, such as 0xff
NonUtf8 == "ff"

LineBytes == Digits \cup {"-", " ", "x", NonUtf8}
Whitespace == {" ", "\n"}

DigitVal(c) ==
    CASE c = "0" -> 0 [] c = "4" -> 4 [] c = "5" -> 5 [] c = "6" -> 6
      [] c = "9" -> 9

RECURSIVE LStrip(_)
LStrip(s) ==
    IF s # <<>> /\ Head(s) \in Whitespace THEN LStrip(Tail(s)) ELSE s

RECURSIVE RStrip(_)
RStrip(s) ==
    IF s # <<>> /\ s[Len(s)] \in Whitespace
    THEN RStrip(SubSeq(s, 1, Len(s) - 1)) ELSE s

\* bytes.strip()
Strip(s) == RStrip(LStrip(s))

RECURSIVE DecVal(_)
DecVal(s) ==
    IF s = <<>> THEN 0
    ELSE DecVal(SubSeq(s, 1, Len(s) - 1)) * 10 + DigitVal(s[Len(s)])

\* int(size_str): an optional sign, then decimal digits; ok = FALSE is ValueError
ParseInt(s) ==
    LET neg == s # <<>> /\ Head(s) = "-"
        body == IF neg THEN Tail(s) ELSE s
    IN  IF body = <<>> \/ \E k \in 1..Len(body) : body[k] \notin Digits
        THEN [ok |-> FALSE, val |-> 0]
        ELSE [ok |-> TRUE, val |-> IF neg THEN 0 - DecVal(body) ELSE DecVal(body)]

\* a send loop that always writes a whole chunk
ToSendWholeChunk(size, bytes_sent) == TCP_CHUNK_SIZE

\* to_send = min(chunk_size, size - bytes_sent)
ToSend(size, bytes_sent) == Min(TCP_CHUNK_SIZE, size - bytes_sent)

\* the thread as created by listen_tcp for the accepted socket client_sock;
\* wire counts the bytes that reached the connection, exit names the path on
\* which the handler returned
NewTcpHandler(client_sock) ==
    [pc |-> "recv", client_sock |-> client_sock, data |-> <<>>, file_size |-> 0,
     bytes_sent |-> 0, writes |-> <<>>, wire |-> 0, failed |-> FALSE,
     exit |-> "none"]

\* a return on the path named exit that leaves the socket as it is
TcpReturnOpen(t, exit) == [t EXCEPT !.pc = "returned", !.exit = exit]

\* the handler leaves the try statement on the path named exit: finally:
\* client_sock.close(), and the thread returns
TcpClose(t, exit) == [t EXCEPT !.pc = "closed", !.exit = exit]

\* data.strip().decode() raises UnicodeDecodeError
DecodeRaises(s) == \E k \in DOMAIN s : s[k] = NonUtf8

\* chunk = client_sock.recv(1) returns one byte; data += chunk
TcpRecvByte(h, c) ==
    /\ h \in DOMAIN tcpHandlers
    /\ LET t == tcpHandlers[h] IN
        /\ t.pc = "recv"
        /\ c = "\n" \/ Len(t.data) < MaxLine
        /\ tcpHandlers' = [tcpHandlers EXCEPT
                ![h].data = Append(t.data, c),
                ![h].pc = IF c = "\n" THEN "parse" ELSE "recv"]
    /\ UNCHANGED <<loops, udpHandlers, logged, cvars, ports, aux>>

\* recv returns b"": the client closed the connection; return, finally close
TcpPeerClosed(h) ==
    /\ h \in DOMAIN tcpHandlers
    /\ tcpHandlers[h].pc = "recv"
    /\ tcpHandlers' = [tcpHandlers EXCEPT ![h] = TcpClose(tcpHandlers[h], "peer_closed")]
    /\ UNCHANGED <<loops, udpHandlers, logged, cvars, ports, aux>>

\* recv raises: "TCP client error", finally close
TcpRecvError(h) ==
    /\ h \in DOMAIN tcpHandlers
    /\ tcpHandlers[h].pc = "recv"
    /\ tcpHandlers' = [tcpHandlers EXCEPT ![h] = TcpClose(tcpHandlers[h], "error")]
    /\ UNCHANGED <<loops, udpHandlers, logged, cvars, ports, aux>>

\* size_str = data.strip().decode(), or UnicodeDecodeError: "TCP client
\* error"; file_size = int(size_str), or ValueError: "Invalid file size"
TcpParseSize(h) ==
    /\ h \in DOMAIN tcpHandlers
    /\ LET t == tcpHandlers[h]
           r == ParseInt(Strip(t.data))
       IN
        /\ t.pc = "parse"
        /\ tcpHandlers' =
                IF DecodeRaises(Strip(t.data))
                THEN [tcpHandlers EXCEPT ![h] = TcpClose(t, "error")]
                ELSE IF r.ok
                THEN [tcpHandlers EXCEPT ![h].file_size = r.val, ![h].pc = "send"]
                ELSE [tcpHandlers EXCEPT ![h] = TcpClose(t, "invalid_size")]
    /\ UNCHANGED <<loops, udpHandlers, logged, cvars, ports, aux>>

\* one iteration of send_tcp_data whose sendall succeeds
TcpSendChunk(h) ==
    /\ h \in DOMAIN tcpHandlers
    /\ LET t == tcpHandlers[h]
           to_send == ToSend(t.file_size, t.bytes_sent)
       IN
        /\ t.pc = "send"
        /\ t.bytes_sent < t.file_size
        /\ tcpHandlers' = [tcpHandlers EXCEPT
                ![h].writes = Append(t.writes, to_send),
                ![h].wire = t.wire + to_send,
                ![h].bytes_sent = t.bytes_sent + to_send]
    /\ UNCHANGED <<loops, udpHandlers, logged, cvars, ports, aux>>

\* one iteration whose sendall raises after p < to_send bytes went out:
\* logged, break, return, finally close
TcpSendFail(h) ==
    /\ h \in DOMAIN tcpHandlers
    /\ LET t == tcpHandlers[h]
           to_send == ToSend(t.file_size, t.bytes_sent)
       IN
        /\ t.pc = "send"
        /\ t.bytes_sent < t.file_size
        /\ \E p \in {0, to_send - 1} :
            tcpHandlers' = [tcpHandlers EXCEPT
                ![h] = TcpClose([t EXCEPT !.wire = t.wire + p, !.failed = TRUE],
                                "send_error")]
    /\ UNCHANGED <<loops, udpHandlers, logged, cvars, ports, aux>>

\* bytes_sent < size is false: send_tcp_data returns, finally close
TcpSendDone(h) ==
    /\ h \in DOMAIN tcpHandlers
    /\ LET t == tcpHandlers[h] IN
        /\ t.pc = "send"
        /\ ~(t.bytes_sent < t.file_size)
        /\ tcpHandlers' = [tcpHandlers EXCEPT ![h] = TcpClose(t, "sent")]
    /\ UNCHANGED <<loops, udpHandlers, logged, cvars, ports, aux>>

\* the steps of one handler that do not read from the peer
TcpHandlerStep(h) ==
    \/ TcpPeerClosed(h)
    \/ TcpRecvError(h)
    \/ TcpParseSize(h)
    \/ TcpSendChunk(h)
    \/ TcpSendFail(h)
    \/ TcpSendDone(h)

(***************************************************************************)
(* A lone TCP connection: one handle_tcp_client thread and a peer that     *)
(* sends any bytes.                                                        *)
(***************************************************************************)
InitTcpServe ==
    /\ ServerStarted
    /\ server_udp_port = 5001
    /\ server_tcp_port = 6001
    /\ NothingSeen
    /\ NoClient
    /\ tcpHandlers = <<NewTcpHandler(1)>>
    /\ udpHandlers = <<>>

NextTcpServe ==
    \/ \E c \in LineBytes \cup {"\n"} : TcpRecvByte(1, c)
    \/ TcpHandlerStep(1)

SpecTcpServe == InitTcpServe /\ [][NextTcpServe]_vars

\* what C2 says of one handler whose request line parsed as file_size
TcpStreamed(t, total) ==
    /\ t.exit = "sent" =>
            /\ SumSeq(t.writes) = total
            /\ t.wire = total
            /\ \A k \in 1..Len(t.writes) :
                    /\ t.writes[k] <= TCP_CHUNK_SIZE
                    /\ k < Len(t.writes) => t.writes[k] = TCP_CHUNK_SIZE
    /\ t.failed =>
            /\ t.pc = "closed"
            /\ t.wire < t.file_size
            /\ SumSeq(t.writes) <= t.wire

\* C2 as stated: for every parsed size the send loop writes exactly that
\* many bytes when no send fails.
C2_Original ==
    \A h \in DOMAIN tcpHandlers :
        TcpStreamed(tcpHandlers[h], tcpHandlers[h].file_size)

\* C2: for every parsed size the send loop, when no send fails, writes
\* exactly that many bytes if the size is not negative and nothing if it is
\* negative, in writes of at most 4096 bytes where every write but the last
\* is 4096 bytes; when a send fails the bytes written are fewer than the
\* size and the loop has ended.
C2_TcpStream ==
    \A h \in DOMAIN tcpHandlers :
        LET t == tcpHandlers[h] IN
            TcpStreamed(t, IF t.file_size < 0 THEN 0 ELSE t.file_size)

\* a request of 5000 bytes has been served by writes of 4096 and 904 bytes
C2_Witness ==
    \E h \in DOMAIN tcpHandlers :
        /\ tcpHandlers[h].exit = "sent"
        /\ tcpHandlers[h].file_size = 5000
        /\ tcpHandlers[h].writes = <<4096, 904>>

(***************************************************************************)
(* SpeedTestServer.start, broadcast_offers, listen_tcp, listen_udp_requests *)
(***************************************************************************)
\* a shutdown that cancels the handler threads along with the signal
ShutdownCancels ==
    /\ serverMain = "sleep"
    /\ running' = FALSE
    /\ serverMain' = "returned"
    /\ tcpHandlers' = <<>>
    /\ udpHandlers' = <<>>
    /\ UNCHANGED <<bcastLoop, tcpLoop, udpLoop, logged, cvars, ports, aux>>

\* start: KeyboardInterrupt in the main thread's sleep loop
Shutdown ==
    /\ serverMain = "sleep"
    /\ running' = FALSE
    /\ serverMain' = "returned"
    /\ UNCHANGED <<bcastLoop, tcpLoop, udpLoop, tcpHandlers, udpHandlers, logged, cvars, ports, aux>>

\* main.py: start has returned, main returns and the interpreter exits.  The
\* loops and the handlers are daemon threads (daemon=True): they end with
\* the process, wherever they are.
ProcessExit ==
    /\ serverMain = "returned"
    /\ serverMain' = "absent"
    /\ bcastLoop' = "absent"
    /\ tcpLoop' = "absent"
    /\ udpLoop' = "absent"
    /\ tcpHandlers' = <<>>
    /\ udpHandlers' = <<>>
    /\ UNCHANGED <<running, logged, cvars, ports, aux>>

\* broadcast_offers, one iteration: self.running is true, the offer is built
\* and sent, or the send raises and is logged; then
\* time.sleep(BROADCAST_INTERVAL).  What the network sees of it is left to
\* the observer.
BroadcastOffer(sent_ok) ==
    /\ bcastLoop = "loop"
    /\ running
    /\ sent_ok \in BOOLEAN
    /\ bcastLoop' = "loop"
    /\ UNCHANGED <<running, serverMain, tcpLoop, udpLoop, tcpHandlers, udpHandlers,
                   logged, cvars, ports, seen, delivered>>

\* broadcast_offers: self.running is false, the thread returns
BroadcastExit ==
    /\ bcastLoop = "loop"
    /\ ~running
    /\ bcastLoop' = "exited"
    /\ UNCHANGED <<running, serverMain, tcpLoop, udpLoop, tcpHandlers, udpHandlers,
                   logged, cvars, ports, aux>>

\* an accept loop that does not look at self.running
TcpLoopForever == "accept"

\* listen_tcp: the loop after an iteration, while self.running is evaluated
TcpLoopAgain == IF running THEN "accept" ELSE "exited"

\* an accept loop that an exception of accept ends
TcpLoopDies == "exited"

\* listen_tcp: except Exception: the error is logged and the loop goes on
TcpLoopAfterError == TcpLoopAgain

\* listen_udp_requests: the loop after an iteration
UdpLoopAgain == IF running THEN "recv" ELSE "exited"

\* listen_udp_requests: except Exception: the error is logged and the loop
\* goes on
UdpLoopAfterError == UdpLoopAgain

\* listen_tcp: accept returns a connection; its handler thread is started
TcpAccept ==
    /\ tcpLoop = "accept"
    /\ Len(tcpHandlers) + Len(udpHandlers) < MaxHandlers
    /\ tcpHandlers' = Append(tcpHandlers, NewTcpHandler(Len(tcpHandlers) + 1))
    /\ tcpLoop' = TcpLoopAgain
    /\ UNCHANGED <<running, serverMain, bcastLoop, udpLoop, udpHandlers, logged, cvars, ports, aux>>

\* listen_tcp: accept raises socket.timeout: pass
TcpAcceptTimeout ==
    /\ tcpLoop = "accept"
    /\ tcpLoop' = TcpLoopAgain
    /\ UNCHANGED <<running, serverMain, bcastLoop, udpLoop, tcpHandlers, udpHandlers,
                   logged, cvars, ports, aux>>

\* listen_tcp: accept raises another exception: "TCP accept error"
TcpAcceptError ==
    /\ tcpLoop = "accept"
    /\ logged' = logged \cup {"TCP accept error"}
    /\ tcpLoop' = TcpLoopAfterError
    /\ UNCHANGED <<running, serverMain, bcastLoop, udpLoop, tcpHandlers, udpHandlers, cvars, ports, aux>>

\* the file sizes and the sender addresses of the datagrams that reach the
\* server's UDP port
ReqFileSizes == {0, 1500}
ClientAddrs == {"c1", "c2"}

\* a datagram: the length of its buffer, the values at the places of the
\* header fields, and its sender
Request(n, cookie, type, size, a) ==
    [len |-> n, mc |-> cookie, mt |-> type, file_size |-> size, addr |-> a]

\* the well-formed requests, and datagrams that are too short, too long, of
\* another cookie or of another type
RequestDatagrams ==
    {Request(REQUEST_SIZE, MAGIC_COOKIE, MSG_TYPE_REQUEST, size, a) :
        size \in ReqFileSizes, a \in ClientAddrs}
    \cup {Request(n, MAGIC_COOKIE, MSG_TYPE_REQUEST, 1500, "c1") :
            n \in {REQUEST_SIZE - 1, REQUEST_SIZE + 1}}
    \cup {Request(REQUEST_SIZE, <<0, 0>>, MSG_TYPE_REQUEST, 1500, "c1"),
          Request(REQUEST_SIZE, MAGIC_COOKIE, MSG_TYPE_OFFER, 1500, "c1"),
          Request(REQUEST_SIZE + 1, <<0, 0>>, MSG_TYPE_OFFER, 1500, "c1")}

\* struct.unpack(fmt, buffer) raises struct.error unless the buffer has
\* exactly the size of the format
UnpackRaises(size, d) == d.len # size

\* listen_udp_requests: what the iteration makes of the datagram d
RequestOutcome(d) ==
    IF d.len >= REQUEST_SIZE
    THEN IF UnpackRaises(REQUEST_SIZE, d) THEN "error"
         ELSE IF d.mc = MAGIC_COOKIE /\ d.mt = MSG_TYPE_REQUEST THEN "spawn"
         ELSE "ignore"
    ELSE "ignore"

\* listen_udp_requests: recvfrom returns the datagram d
UdpRecvRequest(d) ==
    /\ udpLoop = "recv"
    /\ RequestOutcome(d) = "spawn" =>
            Len(tcpHandlers) + Len(udpHandlers) < MaxHandlers
    /\ udpHandlers' =
            IF RequestOutcome(d) = "spawn"
            THEN Append(udpHandlers, NewUdpHandler(d.addr, d.file_size))
            ELSE udpHandlers
    /\ logged' =
            IF RequestOutcome(d) = "error"
            THEN logged \cup {"UDP request error"} ELSE logged
    /\ udpLoop' =
            IF RequestOutcome(d) = "error" THEN UdpLoopAfterError ELSE UdpLoopAgain
    /\ UNCHANGED <<running, serverMain, bcastLoop, tcpLoop, tcpHandlers, cvars, ports,
                   offers, delivered>>

\* listen_udp_requests: recvfrom raises socket.timeout: pass
UdpRecvTimeout ==
    /\ udpLoop = "recv"
    /\ udpLoop' = UdpLoopAgain
    /\ UNCHANGED <<running, serverMain, bcastLoop, tcpLoop, tcpHandlers, udpHandlers,
                   logged, cvars, ports, aux>>

\* listen_udp_requests: recvfrom raises another exception: "UDP request error"
UdpRecvError ==
    /\ udpLoop = "recv"
    /\ logged' = logged \cup {"UDP request error"}
    /\ udpLoop' = UdpLoopAfterError
    /\ UNCHANGED <<running, serverMain, bcastLoop, tcpLoop, tcpHandlers, udpHandlers, cvars, ports, aux>>

\* the request lines the peers of the whole server send
ServerPeerLines == {<<"5", "\n">>, <<"x", "\n">>}

\* the byte c continues one of those lines after the bytes read so far
NextLineByte(read, c) ==
    \E l \in ServerPeerLines :
        /\ Len(l) > Len(read)
        /\ SubSeq(l, 1, Len(read)) = read
        /\ l[Len(read) + 1] = c

(***************************************************************************)
(* The server: the main thread, the three loops and the handlers           *)
(***************************************************************************)
Init ==
    /\ ServerStarted
    /\ server_udp_port = 5001
    /\ server_tcp_port = 6001
    /\ NothingSeen
    /\ NoClient
    /\ tcpHandlers = <<>>
    /\ udpHandlers = <<>>

Next ==
    \/ Shutdown
    \/ ProcessExit
    \/ \E sent_ok \in BOOLEAN : BroadcastOffer(sent_ok) /\ UNCHANGED offers
    \/ BroadcastExit
    \/ TcpAccept
    \/ TcpAcceptTimeout
    \/ TcpAcceptError
    \/ \E d \in RequestDatagrams : UdpRecvRequest(d) /\ UNCHANGED seen
    \/ UdpRecvTimeout
    \/ UdpRecvError
    \/ \E h \in DOMAIN tcpHandlers :
            \E c \in LineBytes \cup {"\n"} :
                NextLineByte(tcpHandlers[h].data, c) /\ TcpRecvByte(h, c)
    \/ \E h \in DOMAIN tcpHandlers : TcpHandlerStep(h)
    \/ \E h \in DOMAIN udpHandlers : UdpHandlerStep(h)

Spec == Init /\ [][Next]_vars

\* the handlers other than the TCP handler h, and other than the UDP handler h
OtherTcpSame(h) ==
    \A g \in DOMAIN tcpHandlers : g # h => tcpHandlers'[g] = tcpHandlers[g]
OtherUdpSame(h) ==
    \A g \in DOMAIN udpHandlers : g # h => udpHandlers'[g] = udpHandlers[g]

\* while the server is not shut down both listening loops are in their
\* blocking call, and a new connection or request would get its handler
C9_LoopsServe ==
    running =>
        /\ tcpLoop = "accept"
        /\ udpLoop = "recv"
        /\ Len(tcpHandlers) + Len(udpHandlers) < MaxHandlers =>
                /\ ENABLED TcpAccept
                /\ ENABLED UdpRecvRequest(
                        Request(REQUEST_SIZE, MAGIC_COOKIE, MSG_TYPE_REQUEST, 1500, "c1"))

\* a step in which a send of one handler fails, or in which a listening
\* loop logs an error, changes no other handler, and ends no loop
C9_OnlyTheAffected ==
    /\ \A h \in DOMAIN tcpHandlers \cap DOMAIN tcpHandlers' :
            (tcpHandlers'[h].failed /\ ~tcpHandlers[h].failed) =>
                /\ OtherTcpSame(h)
                /\ udpHandlers' = udpHandlers
                /\ loops' = loops
    /\ \A h \in DOMAIN udpHandlers \cap DOMAIN udpHandlers' :
            (udpHandlers'[h].failed /\ ~udpHandlers[h].failed) =>
                /\ OtherUdpSame(h)
                /\ tcpHandlers' = tcpHandlers
                /\ loops' = loops
    /\ logged' # logged =>
            /\ tcpHandlers' = tcpHandlers
            /\ udpHandlers' = udpHandlers
            /\ running => (tcpLoop' = tcpLoop /\ udpLoop' = udpLoop)

\* C9: a send error inside a TCP or UDP handler, an accept error or a UDP
\* receive error aborts only the affected connection or transfer: while the
\* server is not shut down the accept loop and the receive loop keep
\* running, every other handler is left as it was, and connections and
\* requests arriving afterwards are still given a handler.
C9_TransientFailures == []C9_LoopsServe /\ [][C9_OnlyTheAffected]_vars

\* both loops have logged an error, a TCP handler has ended on a send
\* error, and the server is still up with a UDP transfer run to its end
C9_Witness ==
    /\ running
    /\ logged = {"TCP accept error", "UDP request error"}
    /\ \E h \in DOMAIN tcpHandlers : tcpHandlers[h].exit = "send_error"
    /\ \E h \in DOMAIN udpHandlers :
            /\ udpHandlers[h].pc = "done"
            /\ ~udpHandlers[h].failed
            /\ Len(udpHandlers[h].sent) = 2
    /\ tcpLoop = "accept"
    /\ udpLoop = "recv"

(***************************************************************************)
(* SpeedTestClient: run, listen_for_offer, start_speed_test                *)
(***************************************************************************)
\* the 10 seconds of listen_for_offer, in ticks
OFFER_DEADLINE == 20
\* the 0.5 s timeout of client_udp_socket, in ticks
OFFER_RECV_TIMEOUT == 1

\* the file sizes the user may have entered
ClientFileSizes == {5000}

OfferDatagram(n, cookie, type, udp_port, tcp_port, a) ==
    [len |-> n, mc |-> cookie, mt |-> type, udp_port |-> udp_port,
     tcp_port |-> tcp_port, addr |-> a]

\* the datagrams that reach the discovery port: well-formed offers of two
\* servers, and datagrams that are too short, too long, of another cookie or
\* of another type
OfferDatagrams ==
    {OfferDatagram(OFFER_SIZE, MAGIC_COOKIE, MSG_TYPE_OFFER, 5001, 6001, "s1"),
     OfferDatagram(OFFER_SIZE, MAGIC_COOKIE, MSG_TYPE_OFFER, 5002, 6002, "s2"),
     OfferDatagram(OFFER_SIZE - 1, MAGIC_COOKIE, MSG_TYPE_OFFER, 5001, 6001, "s1"),
     OfferDatagram(OFFER_SIZE + 1, MAGIC_COOKIE, MSG_TYPE_OFFER, 5001, 6001, "s1"),
     OfferDatagram(OFFER_SIZE, <<0, 0>>, MSG_TYPE_OFFER, 5001, 6001, "s1"),
     OfferDatagram(OFFER_SIZE, MAGIC_COOKIE, MSG_TYPE_REQUEST, 5001, 6001, "s1"),
     OfferDatagram(OFFER_SIZE + 1, <<0, 0>>, MSG_TYPE_OFFER, 5001, 6001, "s1")}

\* listen_for_offer: what the iteration makes of the datagram d
OfferOutcome(d) ==
    IF d.len >= OFFER_SIZE
    THEN IF UnpackRaises(OFFER_SIZE, d) THEN "error"
         ELSE IF d.mc = MAGIC_COOKIE /\ d.mt = MSG_TYPE_OFFER THEN "offer"
         ELSE "ignore"
    ELSE "ignore"

\* a deadline test that is late by one receive timeout
DeadlinePassedLate(e) == e > OFFER_DEADLINE + OFFER_RECV_TIMEOUT

\* listen_for_offer: (time.time() - start_time) > 10
DeadlinePassed(e) == e > OFFER_DEADLINE

\* a thread of start_speed_test has returned, or has died of an exception
Finished(t) == t.pc \in {"done", "died"}

\* a join loop that waits for the TCP threads only
AllTcpJoined(ts) == \A k \in DOMAIN ts : ts[k].kind = "tcp" => Finished(ts[k])

\* start_speed_test: for t in threads: t.join() has returned
AllJoined(ts) == \A k \in DOMAIN ts : Finished(ts[k])

NumKind(ts, kind) == Cardinality({k \in DOMAIN ts : ts[k].kind = kind})

\* the thread as created by start_speed_test, with the locals of its target
NewThread(kind, idx) ==
    [kind |-> kind, idx |-> idx,
     pc |-> IF kind = "tcp" THEN "connect" ELSE "request",
     received |-> 0, total_bytes |-> 0, total_segments |-> 0,
     segments_received |-> 0, quiet |-> 0, waited |-> 0,
     results |-> 0, reported |-> <<>>, success_rate |-> 0]

\* run: the next iteration of while self.running; listen_for_offer sets
\* start_time, finds the deadline not passed and calls recvfrom
ListenStart ==
    /\ cpc \in {"run", "complete"}
    /\ cpc' = "recvfrom"
    /\ elapsed' = 0
    /\ waited' = 0
    /\ data' = <<>>
    /\ offer' = <<>>
    /\ threads' = SelectSeq(threads, LAMBDA t : ~Finished(t))
    /\ UNCHANGED <<svars, ports, aux, file_size, tcp_count, udp_count>>

\* listen_for_offer: the top of the loop after an iteration that returned
\* nothing: "not found" once the deadline has passed, else recvfrom again
ListenAgain == IF DeadlinePassed(elapsed) THEN "run" ELSE "recvfrom"

\* listen_for_offer: recvfrom returns the datagram d
ListenRecvfrom(d) ==
    /\ cpc = "recvfrom"
    /\ data' = d
    /\ cpc' = "got"
    /\ UNCHANGED <<svars, ports, aux, file_size, tcp_count, udp_count, elapsed, waited, offer, threads>>

\* listen_for_offer returns or goes round its loop: start_time and data are
\* its locals
ListenLocals(next) ==
    /\ waited' = 0
    /\ elapsed' = IF next \in {"recvfrom", "got"} THEN elapsed ELSE 0
    /\ data' = IF next \in {"recvfrom", "got"} THEN data ELSE <<>>

\* listen_for_offer: the datagram is checked; a valid offer is returned and
\* run calls start_speed_test; struct.error is caught by except Exception,
\* which returns None; anything else goes round the loop
ListenCheck ==
    /\ cpc = "got"
    /\ LET o == OfferOutcome(data) IN
        /\ cpc' = CASE o = "offer" -> "start"
                    [] o = "error" -> "run"
                    [] OTHER -> ListenAgain
        /\ offer' = IF o = "offer" THEN <<data.addr, data.udp_port, data.tcp_port>>
                    ELSE <<>>
    /\ ListenLocals(cpc')
    /\ UNCHANGED <<svars, ports, aux, file_size, tcp_count, udp_count, threads>>

\* listen_for_offer: recvfrom raises socket.timeout: pass
ListenTimeout ==
    /\ cpc = "recvfrom"
    /\ waited >= OFFER_RECV_TIMEOUT
    /\ cpc' = ListenAgain
    /\ ListenLocals(cpc')
    /\ UNCHANGED <<svars, ports, aux, file_size, tcp_count, udp_count, offer, threads>>

\* listen_for_offer: recvfrom raises another exception: "Error receiving
\* offer", return None
ListenRecvError ==
    /\ cpc = "recvfrom"
    /\ cpc' = "run"
    /\ ListenLocals(cpc')
    /\ UNCHANGED <<svars, ports, aux, file_size, tcp_count, udp_count, offer, threads>>

\* start_speed_test: the next TCP thread is created and started
StartTcpThread ==
    /\ cpc = "start"
    /\ NumKind(threads, "tcp") < tcp_count
    /\ threads' = Append(threads, NewThread("tcp", NumKind(threads, "tcp") + 1))
    /\ UNCHANGED <<svars, ports, aux, file_size, tcp_count, udp_count, cpc, elapsed, waited, data, offer>>

\* start_speed_test: the TCP threads are started; the next UDP thread is
\* created and started
StartUdpThread ==
    /\ cpc = "start"
    /\ NumKind(threads, "tcp") >= tcp_count
    /\ NumKind(threads, "udp") < udp_count
    /\ threads' = Append(threads, NewThread("udp", NumKind(threads, "udp") + 1))
    /\ UNCHANGED <<svars, ports, aux, file_size, tcp_count, udp_count, cpc, elapsed, waited, data, offer>>

\* start_speed_test: every thread is started and the main thread is in the
\* join loop
Joining ==
    /\ cpc = "start"
    /\ NumKind(threads, "tcp") >= tcp_count
    /\ NumKind(threads, "udp") >= udp_count

\* start_speed_test returns once each join has; run prints "All transfers
\* complete"
JoinThreads ==
    /\ Joining
    /\ AllJoined(threads)
    /\ cpc' = "complete"
    /\ UNCHANGED <<svars, ports, aux, file_size, tcp_count, udp_count, elapsed, waited, data, offer, threads>>

(***************************************************************************)
(* SpeedTestClient.handle_tcp_transfer                                     *)
(***************************************************************************)
cfg == <<file_size, tcp_count, udp_count>>
main == <<cpc, elapsed, waited, data, offer>>

\* the lengths of the chunks s.recv(TCP_RECEIVE_BUFFER_SIZE) returns
RecvChunks == {2500, TCP_RECEIVE_BUFFER_SIZE}

\* the thread prints its result line and returns
TcpReport(t) ==
    [t EXCEPT !.pc = "done", !.results = t.results + 1,
              !.reported = <<t.received>>]

\* connect succeeds
TcpConnect(k) ==
    /\ k \in DOMAIN threads
    /\ threads[k].kind = "tcp" /\ threads[k].pc = "connect"
    /\ threads' = [threads EXCEPT ![k].pc = "send"]
    /\ UNCHANGED <<svars, ports, aux, cfg, main>>

\* sendall of the request line succeeds; the receive loop is entered
TcpSendRequest(k) ==
    /\ k \in DOMAIN threads
    /\ threads[k].kind = "tcp" /\ threads[k].pc = "send"
    /\ threads' = [threads EXCEPT ![k].pc = "recv"]
    /\ UNCHANGED <<svars, ports, aux, cfg, main>>

\* a count that takes every chunk for a full buffer
ReceivedFullBuffer(received, n) == received + TCP_RECEIVE_BUFFER_SIZE

\* received += len(chunk)
Received(received, n) == received + n

\* recv returns a chunk of n bytes; the loop ends when received >= file_size
TcpRecvChunk(k, n) ==
    /\ k \in DOMAIN threads
    /\ threads[k].kind = "tcp" /\ threads[k].pc = "recv"
    /\ LET t == [threads[k] EXCEPT !.received = Received(threads[k].received, n)] IN
        threads' = [threads EXCEPT
            ![k] = IF t.received < file_size THEN t ELSE TcpReport(t)]
    /\ UNCHANGED <<svars, ports, offers, cfg, main>>

\* recv returns b"": the server closed the connection; break
TcpRecvClosed(k) ==
    /\ k \in DOMAIN threads
    /\ threads[k].kind = "tcp" /\ threads[k].pc = "recv"
    /\ threads' = [threads EXCEPT ![k] = TcpReport(threads[k])]
    /\ UNCHANGED <<svars, ports, offers, cfg, main>>

\* connect, sendall or recv raises (refused, reset, the 5 s timeout):
\* except Exception logs it
TcpError(k) ==
    /\ k \in DOMAIN threads
    /\ threads[k].kind = "tcp" /\ threads[k].pc \in {"connect", "send", "recv"}
    /\ threads' = [threads EXCEPT ![k] = TcpReport(threads[k])]
    /\ UNCHANGED <<svars, ports, offers, cfg, main>>

(***************************************************************************)
(* SpeedTestClient.handle_udp_transfer                                     *)
(***************************************************************************)
Payload(n, cookie, type, total, cur) ==
    [len |-> n, mc |-> cookie, mt |-> type, total |-> total, cur |-> cur]

\* the datagrams that reach the socket of a UDP transfer: segments of a
\* transfer of 2500 bytes, and datagrams that are too short, of another
\* cookie or of another type
PayloadDatagrams ==
    {Payload(PAYLOAD_HEADER_SIZE + UDP_PAYLOAD_SIZE, MAGIC_COOKIE, MSG_TYPE_PAYLOAD, 3, 1),
     Payload(PAYLOAD_HEADER_SIZE + UDP_PAYLOAD_SIZE, MAGIC_COOKIE, MSG_TYPE_PAYLOAD, 3, 2),
     Payload(PAYLOAD_HEADER_SIZE + 452, MAGIC_COOKIE, MSG_TYPE_PAYLOAD, 3, 3),
     Payload(PAYLOAD_HEADER_SIZE - 1, MAGIC_COOKIE, MSG_TYPE_PAYLOAD, 3, 1),
     Payload(PAYLOAD_HEADER_SIZE + UDP_PAYLOAD_SIZE, <<0, 0>>, MSG_TYPE_PAYLOAD, 3, 1),
     Payload(PAYLOAD_HEADER_SIZE + UDP_PAYLOAD_SIZE, MAGIC_COOKIE, MSG_TYPE_OFFER, 3, 1)}

\* the datagrams that reach the sockets of the UDP transfers of a whole
\* speed test
ClientPayloadDatagrams ==
    {Payload(PAYLOAD_HEADER_SIZE + UDP_PAYLOAD_SIZE, MAGIC_COOKIE, MSG_TYPE_PAYLOAD, 3, 1),
     Payload(PAYLOAD_HEADER_SIZE - 1, MAGIC_COOKIE, MSG_TYPE_PAYLOAD, 3, 1),
     Payload(PAYLOAD_HEADER_SIZE + UDP_PAYLOAD_SIZE, <<0, 0>>, MSG_TYPE_PAYLOAD, 3, 1)}

\* a test of the cookie and the type that leaves the length out
ValidPayloadAnyLength(d) ==
    ~(d.mc # MAGIC_COOKIE \/ d.mt # MSG_TYPE_PAYLOAD)

\* the receive loop takes d for a segment of the transfer
ValidPayload(d) ==
    /\ ~(d.len < PAYLOAD_HEADER_SIZE)
    /\ ~(d.mc # MAGIC_COOKIE \/ d.mt # MSG_TYPE_PAYLOAD)

\* a byte count that takes the whole datagram for payload
PayloadLengthWithHeader(d) == d.len

\* len(payload_data), payload_data = data[struct.calcsize(PAYLOAD_STRUCT_FORMAT):]
PayloadLength(d) == d.len - PAYLOAD_HEADER_SIZE

\* success_rate as the result line prints it with two decimals, in hundredths
\* of a percent: (segments_received / total_segments) * 100 if
\* total_segments > 0, else 0.0
SuccessRate(t) ==
    IF t.total_segments > 0
    THEN (2 * 10000 * t.segments_received + t.total_segments) \div (2 * t.total_segments)
    ELSE 0

\* the thread prints its result line and returns; its clocks are locals
UdpReport(t) ==
    [t EXCEPT !.pc = "done", !.results = t.results + 1,
              !.reported = <<t.total_bytes, t.segments_received, t.total_segments>>,
              !.success_rate = SuccessRate(t),
              !.quiet = 0, !.waited = 0]

\* an exception leaves the target: the thread ends and prints no result
UdpDies(t) == [t EXCEPT !.pc = "died", !.quiet = 0, !.waited = 0]

\* the socket is bound, the request is sent, last_data_time = time.time(),
\* recvfrom is called
UdpSendRequest(k) ==
    /\ k \in DOMAIN threads
    /\ threads[k].kind = "udp" /\ threads[k].pc = "request"
    /\ threads' = [threads EXCEPT ![k].pc = "recv", ![k].quiet = 0, ![k].waited = 0]
    /\ UNCHANGED <<svars, ports, aux, cfg, main>>

\* bind or sendto raises, outside any try
UdpRequestFails(k) ==
    /\ k \in DOMAIN threads
    /\ threads[k].kind = "udp" /\ threads[k].pc = "request"
    /\ threads' = [threads EXCEPT ![k] = UdpDies(threads[k])]
    /\ UNCHANGED <<svars, ports, aux, cfg, main>>

\* recvfrom returns the datagram d: a short one or one of another cookie or
\* type is skipped by continue, a segment is counted; recvfrom is called again
UdpRecvDatagram(k, d) ==
    /\ k \in DOMAIN threads
    /\ LET t == threads[k] IN
        /\ t.kind = "udp" /\ t.pc = "recv"
        /\ ValidPayload(d) => t.segments_received < MaxSegments
        /\ threads' = [threads EXCEPT ![k] =
                IF ValidPayload(d)
                THEN [t EXCEPT !.total_segments = d.total,
                               !.segments_received = t.segments_received + 1,
                               !.total_bytes = t.total_bytes + PayloadLength(d),
                               !.quiet = 0,
                               !.waited = 0]
                ELSE [t EXCEPT !.waited = 0]]
    /\ UNCHANGED <<svars, ports, offers, cfg, main>>

\* recvfrom raises socket.timeout: break if
\* time.time() - last_data_time > UDP_TRANSFER_TIMEOUT, else recvfrom again.
\* The clocks count whole ticks; when quiet is exactly the timeout the two
\* readings of time.time() are a little more than the timeout apart unless
\* the wall clock was set back in between, so the test may go either way.
UdpQuietTimeout(k) ==
    /\ k \in DOMAIN threads
    /\ LET t == threads[k] IN
        /\ t.kind = "udp" /\ t.pc = "recv"
        /\ t.waited >= UDP_TRANSFER_TIMEOUT
        /\ \/ /\ t.quiet >= UDP_TRANSFER_TIMEOUT
              /\ threads' = [threads EXCEPT ![k] = UdpReport(t)]
           \/ /\ t.quiet <= UDP_TRANSFER_TIMEOUT
              /\ threads' = [threads EXCEPT ![k] = [t EXCEPT !.waited = 0]]
    /\ UNCHANGED <<svars, ports, aux, cfg, main>>

\* recvfrom raises an exception other than socket.timeout, which no except
\* clause of the loop catches
UdpRecvFails(k) ==
    /\ k \in DOMAIN threads
    /\ threads[k].kind = "udp" /\ threads[k].pc = "recv"
    /\ threads' = [threads EXCEPT ![k] = UdpDies(threads[k])]
    /\ UNCHANGED <<svars, ports, aux, cfg, main>>

TransferStep(k) ==
    \/ TcpConnect(k)
    \/ TcpSendRequest(k)
    \/ \E n \in RecvChunks : TcpRecvChunk(k, n) /\ UNCHANGED <<seen, delivered>>
    \/ TcpRecvClosed(k) /\ UNCHANGED <<seen, delivered>>
    \/ TcpError(k) /\ UNCHANGED <<seen, delivered>>
    \/ UdpSendRequest(k)
    \/ UdpRequestFails(k)
    \/ \E d \in ClientPayloadDatagrams :
            UdpRecvDatagram(k, d) /\ UNCHANGED <<seen, delivered>>
    \/ UdpQuietTimeout(k)
    \/ UdpRecvFails(k)

(***************************************************************************)
(* Time                                                                    *)
(***************************************************************************)
\* a thread of the client is in a call that returns only on an event
MainBlocked == cpc = "recvfrom" \/ Joining
ThreadBlocked(t) == Finished(t) \/ t.kind = "tcp" \/ t.pc = "recv"

\* half a second passes: every thread is blocked, no timeout is due, and the
\* clocks of the blocked receives advance
Tick ==
    /\ MainBlocked
    /\ cpc = "recvfrom" => waited < OFFER_RECV_TIMEOUT
    /\ \A k \in DOMAIN threads :
            /\ ThreadBlocked(threads[k])
            /\ (threads[k].kind = "udp" /\ threads[k].pc = "recv") =>
                    /\ threads[k].waited < UDP_TRANSFER_TIMEOUT
                    /\ threads[k].quiet < MaxQuiet
    /\ \/ cpc = "recvfrom"
       \/ \E k \in DOMAIN threads : threads[k].kind = "udp" /\ threads[k].pc = "recv"
    /\ elapsed' = IF cpc = "recvfrom" THEN elapsed + 1 ELSE elapsed
    /\ waited' = IF cpc = "recvfrom" THEN waited + 1 ELSE waited
    /\ threads' = [k \in DOMAIN threads |->
            IF threads[k].kind = "udp" /\ threads[k].pc = "recv"
            THEN [threads[k] EXCEPT !.quiet = threads[k].quiet + 1,
                                    !.waited = threads[k].waited + 1]
            ELSE threads[k]]
    /\ UNCHANGED <<svars, ports, aux, cfg, cpc, data, offer>>

(***************************************************************************)
(* The client: the main thread and the transfer threads of its speed tests *)
(***************************************************************************)
\* SpeedTestClient.__init__: the user's input is accepted when fsize > 0,
\* tcp_c >= 0 and udp_c >= 0
InitClient ==
    /\ NoServer
    /\ NothingSeen
    /\ file_size \in ClientFileSizes
    /\ tcp_count \in 0..MaxThreads
    /\ udp_count \in 0..(MaxThreads - tcp_count)
    /\ cpc = "run"
    /\ elapsed = 0
    /\ waited = 0
    /\ data = <<>>
    /\ offer = <<>>
    /\ threads = <<>>

NextClient ==
    \/ ListenStart
    \/ \E d \in OfferDatagrams : ListenRecvfrom(d)
    \/ ListenCheck
    \/ ListenTimeout
    \/ ListenRecvError
    \/ StartTcpThread
    \/ StartUdpThread
    \/ JoinThreads
    \/ \E k \in DOMAIN threads : TransferStep(k)
    \/ Tick

SpecClient == InitClient /\ [][NextClient]_vars

\* the threads a speed test is to start, by kind and index
ExpectedThreads ==
    ({"tcp"} \X (1..tcp_count)) \cup ({"udp"} \X (1..udp_count))

StartedThreads == {<<threads[k].kind, threads[k].idx>> : k \in DOMAIN threads}

\* C3: start_speed_test starts exactly tcp_count TCP threads, indices
\* 1..tcp_count, and udp_count UDP threads, indices 1..udp_count; "all
\* transfers complete" is reported only when every one of them has finished,
\* and no thread of a test is running while the client listens for an offer
\* or enters its next test.
C3_JoinBeforeComplete ==
    /\ cpc = "complete" =>
            /\ Len(threads) = tcp_count + udp_count
            /\ StartedThreads = ExpectedThreads
            /\ \A k \in DOMAIN threads : Finished(threads[k])
    /\ cpc = "start" =>
            /\ StartedThreads \subseteq ExpectedThreads
            /\ Len(threads) = Cardinality(StartedThreads)
    /\ cpc \in {"run", "recvfrom", "got"} =>
            \A k \in DOMAIN threads : Finished(threads[k])

\* a test of one TCP and one UDP transfer is reported complete, the TCP
\* transfer having received the whole file and the UDP transfer two segments
C3_Witness ==
    /\ cpc = "complete"
    /\ tcp_count = 1 /\ udp_count = 1
    /\ Len(threads) = 2
    /\ threads[1].kind = "tcp" /\ threads[1].received = 5000
    /\ threads[2].kind = "udp" /\ threads[2].segments_received = 2
    /\ threads[2].pc = "done"

\* what a thread has observed when it ends
Observed(t) ==
    IF t.kind = "tcp" THEN <<t.received>>
    ELSE <<t.total_bytes, t.segments_received, t.total_segments>>

\* C5: every transfer thread that has ended has printed exactly one result,
\* carrying the counts it observed.
C5_AlwaysOneResult ==
    \A k \in DOMAIN threads :
        Finished(threads[k]) =>
            /\ threads[k].results = 1
            /\ threads[k].reported = Observed(threads[k])

\* the validation of an Offer as the specification states it
IsOffer(d) == d.len >= OFFER_SIZE /\ d.mc = MAGIC_COOKIE /\ d.mt = MSG_TYPE_OFFER

\* C6: a datagram that fails the Offer validation is ignored: the attempt
\* goes on receiving, or ends as "not found" because the deadline has passed.
C6_InvalidIgnored ==
    [][(cpc = "got" /\ ~IsOffer(data)) =>
            \/ cpc' = "recvfrom" /\ offer' = <<>>
            \/ cpc' = "run" /\ offer' = <<>> /\ DeadlinePassed(elapsed)]_vars

\* C7: a datagram of at least 9 bytes whose cookie and type match ends the
\* attempt at once with the sender's address and the two ports it carries.
C7_OfferAccepted ==
    [][(cpc = "got" /\ IsOffer(data)) =>
            /\ cpc' = "start"
            /\ offer' = <<data.addr, data.udp_port, data.tcp_port>>]_vars

Listening == cpc \in {"recvfrom", "got"}

\* a discovery attempt is never older than the deadline and one receive
\* timeout
C8_Deadline == Listening => elapsed <= OFFER_DEADLINE + OFFER_RECV_TIMEOUT

\* an attempt that ends without an offer starts no thread, and the next step
\* of the main thread is a fresh attempt
C8_Retry ==
    /\ (Listening /\ cpc' = "run") => (offer' = <<>> /\ threads' = threads)
    /\ cpc = "run" => (cpc' = "run" \/ (cpc' = "recvfrom" /\ elapsed' = 0))
    /\ (cpc = "run" /\ cpc' = "recvfrom") => threads' = <<>>

\* C8: every discovery attempt ends; without a valid offer it returns "not
\* found" at the latest one receive timeout after the 10 second deadline,
\* and run then starts a fresh attempt without starting any transfer thread.
C8_DiscoveryEnds ==
    /\ []C8_Deadline
    /\ [][C8_Retry]_vars
    /\ []<>(~Listening)

\* an attempt has waited the deadline and one more receive timeout
C8_Witness ==
    /\ cpc = "recvfrom"
    /\ elapsed = OFFER_DEADLINE + OFFER_RECV_TIMEOUT
    /\ tcp_count + udp_count > 0

\* Time passes, a due timeout is raised, and no thread stops in the middle
\* of statements that do not block.
ClientFairness ==
    /\ SF_vars(Tick)
    /\ WF_vars(ListenStart)
    /\ WF_vars(ListenCheck)
    /\ WF_vars(ListenTimeout)

SpecClientFair == SpecClient /\ ClientFairness

(***************************************************************************)
(* A lone UDP transfer of the client: one handle_udp_transfer thread,      *)
(* started by a speed test of udp_count = 1, and any datagrams.            *)
(***************************************************************************)
InitUdpReceive ==
    /\ NoServer
    /\ NothingSeen
    /\ file_size \in ClientFileSizes
    /\ tcp_count = 0
    /\ udp_count = 1
    /\ cpc = "start"
    /\ elapsed = 0
    /\ waited = 0
    /\ data = <<>>
    /\ offer = <<"s1", 5001, 6001>>
    /\ threads = <<NewThread("udp", 1)>>

\* the observer of the transfer's socket notes the datagram recvfrom
\* returns to thread k, and the segments among them
UdpReceiveObserved(k, d) ==
    /\ UdpRecvDatagram(k, d)
    /\ seen' = d
    /\ delivered' = IF ValidPayload(d) THEN Append(delivered, d) ELSE delivered

NextUdpReceive ==
    \/ UdpSendRequest(1)
    \/ UdpRequestFails(1)
    \/ \E d \in PayloadDatagrams : UdpReceiveObserved(1, d)
    \/ UdpQuietTimeout(1)
    \/ UdpRecvFails(1)
    \/ Tick

SpecUdpReceive == InitUdpReceive /\ [][NextUdpReceive]_vars

\* C4: the receive loop is left when the time since the last valid segment
\* exceeds the quiet period: at the latest at the receive timeout that
\* follows, the loop is no longer running.
C4_QuietPeriodEnds ==
    \A k \in DOMAIN threads :
        (threads[k].kind = "udp" /\ threads[k].pc = "recv") =>
            threads[k].quiet <= UDP_TRANSFER_TIMEOUT + UDP_TRANSFER_TIMEOUT

(***************************************************************************)
(* The sockets the threads work on                                         *)
(***************************************************************************)
\* a handler that answers on the listening socket
TcpHandlerOnListener(t) == <<"tcp_server_socket", 0>>

\* handle_tcp_client works on the socket accept returned
TcpHandlerSocket(t) == <<"client_sock", t.client_sock>>

\* handle_udp_transfer sends on self.udp_request_socket
UdpHandlerSocket(u) == <<"udp_request_socket", 0>>

\* a transfer thread of the client works on the socket it opens itself
TransferSocket(t) == <<t.kind, t.idx>>

\* threads and sockets are named by a pair, of index 0 when there is one only

\* the pairs of a running thread and the socket it works on
SocketsInUse ==
    (IF bcastLoop = "loop"
     THEN {<<<<"broadcast_offers", 0>>, <<"udp_broadcast_socket", 0>>>>} ELSE {})
    \cup (IF tcpLoop = "accept"
          THEN {<<<<"listen_tcp", 0>>, <<"tcp_server_socket", 0>>>>} ELSE {})
    \cup (IF udpLoop = "recv"
          THEN {<<<<"listen_udp_requests", 0>>, <<"udp_request_socket", 0>>>>} ELSE {})
    \cup {<<<<"handle_tcp_client", h>>, TcpHandlerSocket(tcpHandlers[h])>> :
            h \in {g \in DOMAIN tcpHandlers : tcpHandlers[g].pc # "closed"}}
    \cup {<<<<"handle_udp_transfer", h>>, UdpHandlerSocket(udpHandlers[h])>> :
            h \in {g \in DOMAIN udpHandlers : udpHandlers[g].pc # "done"}}
    \cup (IF Listening THEN {<<<<"run", 0>>, <<"client_udp_socket", 0>>>>} ELSE {})
    \cup {<<<<"transfer", k>>, TransferSocket(threads[k])>> :
            k \in {j \in DOMAIN threads : ~Finished(threads[j])}}

C10_SocketOwners ==
    /\ \A p, q \in SocketsInUse :
            (p[2] = q[2] /\ p # q) =>
                /\ p[2] = <<"udp_request_socket", 0>>
                /\ \A r \in {p, q} :
                        r[1][1] \in {"listen_udp_requests", "handle_udp_transfer"}
    /\ \A g, h \in DOMAIN tcpHandlers :
            g # h => tcpHandlers[g].client_sock # tcpHandlers[h].client_sock

\* a step changes the locals of one handler at most, and the running flag
\* is written by the main thread alone
C10_NoSharedWrites ==
    /\ Cardinality({h \in DOMAIN tcpHandlers \cap DOMAIN tcpHandlers' :
                        tcpHandlers'[h] # tcpHandlers[h]})
            + Cardinality({h \in DOMAIN udpHandlers \cap DOMAIN udpHandlers' :
                        udpHandlers'[h] # udpHandlers[h]})
            <= 1
    /\ running' # running => (serverMain = "sleep" /\ serverMain' = "returned")

TcpHandlerFairness ==
    /\ WF_vars(TcpParseSize(1))
    /\ WF_vars(TcpSendDone(1))

SpecTcpServeFair == SpecTcpServe /\ TcpHandlerFairness

\* C11: the TCP handler ends and closes its connection for every behaviour
\* of the client, a client that sends no line terminator and does not close
\* and a client that stops reading included.
C11_HandlerTerminates == <>(tcpHandlers[1].pc = "closed")

(***************************************************************************)
(* The broadcaster: the main thread of the server and broadcast_offers,    *)
(* for any two ports get_free_port may have returned                       *)
(***************************************************************************)
\* an offer that carries the two ports in the wrong order
OfferPacketSwapped ==
    [len |-> OFFER_SIZE, mc |-> MAGIC_COOKIE, mt |-> MSG_TYPE_OFFER,
     udp_port |-> server_tcp_port, tcp_port |-> server_udp_port]

\* struct.pack(OFFER_STRUCT_FORMAT, MAGIC_COOKIE, MSG_TYPE_OFFER,
\*             self.server_udp_port, self.server_tcp_port)
OfferPacket ==
    [len |-> OFFER_SIZE, mc |-> MAGIC_COOKIE, mt |-> MSG_TYPE_OFFER,
     udp_port |-> server_udp_port, tcp_port |-> server_tcp_port]

\* udp_request_socket.bind(("0.0.0.0", self.server_udp_port))
UdpRequestSocketPort == server_udp_port
\* tcp_server_socket.bind(("0.0.0.0", self.server_tcp_port))
TcpServerSocketPort == server_tcp_port

\* the observer notes the packet of the iteration and whether sendto sent it
BroadcastObserved(sent_ok) ==
    /\ BroadcastOffer(sent_ok)
    /\ offers' = IF Len(offers) < MaxOffers
                 THEN Append(offers, [ok |-> sent_ok, packet |-> OfferPacket])
                 ELSE offers

InitBroadcast ==
    /\ ServerStarted
    /\ NothingSeen
    /\ NoClient
    /\ tcpHandlers = <<>>
    /\ udpHandlers = <<>>

NextBroadcast ==
    \/ Shutdown
    \/ ProcessExit
    \/ \E sent_ok \in BOOLEAN : BroadcastObserved(sent_ok)
    \/ BroadcastExit
    \/ TcpAcceptTimeout
    \/ UdpRecvTimeout

SpecBroadcast == InitBroadcast /\ [][NextBroadcast]_vars

\* while the server is not shut down the broadcaster is in its loop and its
\* next iteration attempts a send, whatever became of the sends before;
\* every offer carries the ports the two sockets are bound to
C12_Broadcasting ==
    /\ running =>
            /\ bcastLoop = "loop"
            /\ ENABLED BroadcastObserved(TRUE)
            /\ ENABLED BroadcastObserved(FALSE)
    /\ bcastLoop # "loop" => ~running
    /\ \A k \in 1..Len(offers) :
            /\ offers[k].packet.len = OFFER_SIZE
            /\ offers[k].packet.mc = MAGIC_COOKIE
            /\ offers[k].packet.mt = MSG_TYPE_OFFER
            /\ offers[k].packet.udp_port = UdpRequestSocketPort
            /\ offers[k].packet.tcp_port = TcpServerSocketPort
            /\ offers[k].packet = offers[1].packet

\* an iteration makes one attempt, and an attempt that fails leaves the
\* broadcaster in its loop
C12_OneAttempt ==
    /\ Len(offers') <= Len(offers) + 1
    /\ \A k \in 1..Len(offers) : offers'[k] = offers[k]
    /\ (Len(offers') > Len(offers) /\ ~offers'[Len(offers')].ok) => bcastLoop' = "loop"

\* C12: while the server is not shut down the broadcaster attempts one
\* offer in every iteration of its loop, which sleeps the broadcast interval;
\* a failed send does not stop the loop; every offer carries the same pair
\* of ports, those the UDP request socket and the TCP listener are bound to;
\* the loop stops only after shutdown.
C12_BroadcastForever == []C12_Broadcasting /\ [][C12_OneAttempt]_vars

\* a send has failed, the next one has succeeded, and the server is up
C12_Witness ==
    /\ running
    /\ Len(offers) >= 2
    /\ ~offers[1].ok
    /\ offers[2].ok
    /\ server_udp_port # server_tcp_port

(***************************************************************************)
(* The main thread and the three loops of the server; the handlers the     *)
(* loops start are not followed                                            *)
(***************************************************************************)
InitLoops ==
    /\ ServerStarted
    /\ server_udp_port = 5001
    /\ server_tcp_port = 6001
    /\ NothingSeen
    /\ NoClient
    /\ tcpHandlers = <<>>
    /\ udpHandlers = <<>>

NextLoops ==
    \/ Shutdown
    \/ ProcessExit
    \/ \E sent_ok \in BOOLEAN : BroadcastObserved(sent_ok)
    \/ BroadcastExit
    \/ TcpAccept
    \/ TcpAcceptTimeout
    \/ TcpAcceptError
    \/ \E d \in RequestDatagrams : UdpRecvRequest(d) /\ UNCHANGED seen
    \/ UdpRecvTimeout
    \/ UdpRecvError

SpecLoops == InitLoops /\ [][NextLoops]_vars

\* time.sleep(BROADCAST_INTERVAL) returns after a second, and accept and
\* recvfrom raise socket.timeout after half a second (settimeout(0.5)): each
\* loop comes to its while test
LoopsFairness ==
    /\ WF_vars(BroadcastExit)
    /\ WF_vars(TcpAcceptTimeout)
    /\ WF_vars(UdpRecvTimeout)

SpecLoopsFair == SpecLoops /\ LoopsFairness

\* no loop is in its body any more
LoopsStopped ==
    /\ bcastLoop # "loop"
    /\ tcpLoop # "accept"
    /\ udpLoop # "recv"

\* the three loops have left their while statements
LoopsExited ==
    /\ bcastLoop = "exited"
    /\ tcpLoop = "exited"
    /\ udpLoop = "exited"

\* C13 as stated: after the shutdown signal every loop comes to its while
\* test, finds the signal and exits.
C13_Original == (~running) ~> LoopsExited

\* after the signal the blocking call a loop is in is its last; a loop that
\* is out of its body stays out, sends no offer and starts no handler
C13_AfterSignal ==
    /\ (~running /\ tcpLoop = "accept" /\ Len(tcpHandlers') > Len(tcpHandlers))
            => tcpLoop' = "exited"
    /\ (~running /\ udpLoop = "recv" /\ Len(udpHandlers') > Len(udpHandlers))
            => udpLoop' = "exited"
    /\ (~running /\ tcpLoop' # tcpLoop) => tcpLoop' \in {"exited", "absent"}
    /\ (~running /\ udpLoop' # udpLoop) => udpLoop' \in {"exited", "absent"}
    /\ (~running /\ bcastLoop' # bcastLoop) => bcastLoop' \in {"exited", "absent"}
    /\ bcastLoop # "loop" => (bcastLoop' # "loop" /\ offers' = offers)
    /\ tcpLoop # "accept" =>
            (tcpLoop' # "accept" /\ Len(tcpHandlers') <= Len(tcpHandlers))
    /\ udpLoop # "recv" =>
            (udpLoop' # "recv" /\ Len(udpHandlers') <= Len(udpHandlers))

\* C13: after the shutdown signal each of the three loops finds it at its
\* next while test and exits, unless the exit of the process ends the loop
\* before that test; a loop that has found the signal, or has been ended,
\* sends no further offer and starts no further handler.
C13_LoopsStop == ((~running) ~> LoopsStopped) /\ [][C13_AfterSignal]_vars

\* the three loops have found the signal and returned while the process is
\* still there, after an offer was sent and a handler of each kind started
C13_Witness ==
    /\ LoopsExited
    /\ serverMain = "returned"
    /\ Len(offers) > 0
    /\ Len(tcpHandlers) > 0
    /\ Len(udpHandlers) > 0

(***************************************************************************)
(* C14: the counts of a UDP transfer                                       *)
(***************************************************************************)
RECURSIVE PayloadBytes(_)
\* the bytes that follow the 21-byte header in the datagrams of ds
PayloadBytes(ds) ==
    IF ds = <<>> THEN 0
    ELSE (Head(ds).len - PAYLOAD_HEADER_SIZE) + PayloadBytes(Tail(ds))

\* the segments recvfrom returned are distinct segments of one transfer
DistinctSegments(ds) ==
    /\ \A i, j \in DOMAIN ds : i # j => ds[i].cur # ds[j].cur
    /\ \A i, j \in DOMAIN ds : ds[i].total = ds[j].total

\* segmentsReceived / totalSegments * 100 to two decimals, in hundredths of
\* a percent, for k segments of a transfer of n
RateOf(k, n) == IF n > 0 THEN (2 * 10000 * k + n) \div (2 * n) ELSE 0

\* C14: when the receive loop of a UDP transfer has ended after k distinct
\* valid segments of the transfer were received, in whatever order and
\* whichever were lost, the thread holds segments_received = k, total_bytes
\* = the sum of their payload lengths without the headers, total_segments =
\* the value the segments carry (0 when k = 0), and the success rate is
\* segments_received / total_segments * 100, or 0 when total_segments is 0.
C14_TransferCounts ==
    \A k \in DOMAIN threads :
        LET t == threads[k] IN
        (t.kind = "udp" /\ t.pc = "done" /\ DistinctSegments(delivered)) =>
            /\ t.segments_received = Len(delivered)
            /\ t.total_bytes = PayloadBytes(delivered)
            /\ t.total_segments =
                    IF Len(delivered) > 0 THEN delivered[1].total ELSE 0
            /\ t.success_rate = RateOf(Len(delivered), t.total_segments)
            /\ Len(delivered) = 0 => t.success_rate = 0

\* scenario B: the third and the first of the 3 segments of a transfer of
\* 2500 bytes arrived, in that order, the second was lost: 2 of 3, 66.67 %
C14_Witness ==
    /\ Len(threads) = 1
    /\ threads[1].kind = "udp" /\ threads[1].pc = "done"
    /\ Len(delivered) = 2
    /\ delivered[1].cur = 3 /\ delivered[2].cur = 1
    /\ threads[1].segments_received = 2
    /\ threads[1].total_segments = 3
    /\ threads[1].total_bytes = 1476
    /\ threads[1].success_rate = 6667

(***************************************************************************)
(* C15: the handlers at shutdown                                           *)
(***************************************************************************)
\* a connection is accepted, and a datagram is received, before the signal
TcpAcceptBefore == running /\ TcpAccept
UdpRecvRequestBefore(d) == running /\ UdpRecvRequest(d) /\ UNCHANGED seen

\* The main thread, the two listening loops and the handlers of the server,
\* with clients that connect and send requests only before the shutdown
\* signal: every handler there is was spawned before it.
NextHandlers ==
    \/ Shutdown
    \/ ProcessExit
    \/ TcpAcceptBefore
    \/ TcpAcceptTimeout
    \/ TcpAcceptError
    \/ \E d \in RequestDatagrams : UdpRecvRequestBefore(d)
    \/ UdpRecvTimeout
    \/ UdpRecvError
    \/ \E h \in DOMAIN tcpHandlers :
            \E c \in LineBytes \cup {"\n"} :
                NextLineByte(tcpHandlers[h].data, c) /\ TcpRecvByte(h, c)
    \/ \E h \in DOMAIN tcpHandlers : TcpHandlerStep(h)
    \/ \E h \in DOMAIN udpHandlers : UdpHandlerStep(h)

SpecHandlers == Init /\ [][NextHandlers]_vars

\* handle_tcp_client has closed its socket and returned; handle_udp_transfer
\* has returned
TcpHandlerFinished(t) == t.pc = "closed"
UdpHandlerFinished(u) == u.pc = "done"

\* no handler thread that has not returned goes away
C15_NoneLost ==
    /\ \A h \in DOMAIN tcpHandlers :
            ~TcpHandlerFinished(tcpHandlers[h]) => h \in DOMAIN tcpHandlers'
    /\ \A h \in DOMAIN udpHandlers :
            ~UdpHandlerFinished(udpHandlers[h]) => h \in DOMAIN udpHandlers'

\* C15 as stated: every handler runs to its natural completion although the
\* server is shutting down and its main thread returns.
C15_Original == [][C15_NoneLost]_vars

\* the step that raises the signal leaves every handler as it is, and a
\* handler goes away only in the step in which the process exits
C15_OnlyAtExit ==
    /\ (running /\ ~running') =>
            (tcpHandlers' = tcpHandlers /\ udpHandlers' = udpHandlers)
    /\ ~C15_NoneLost => (serverMain = "returned" /\ serverMain' = "absent")

\* after the signal, while the process is there, every handler that has not
\* returned can take its next step
C15_StillRunning ==
    (~running /\ serverMain = "returned") =>
        /\ \A h \in DOMAIN tcpHandlers :
                ~TcpHandlerFinished(tcpHandlers[h]) => ENABLED TcpHandlerStep(h)
        /\ \A h \in DOMAIN udpHandlers :
                ~UdpHandlerFinished(udpHandlers[h]) => ENABLED UdpHandlerStep(h)

\* C15: the handlers that run when the shutdown signal arrives are not
\* cancelled by it and go on for as long as the process lives; a handler
\* that has not returned when the main thread has returned ends with the
\* process, being a daemon thread.
C15_NotCancelled == []C15_StillRunning /\ [][C15_OnlyAtExit]_vars

\* the signal has been raised and the main thread has returned while a TCP
\* handler has its stream to send and a UDP handler has sent the first of
\* its segments
C15_Witness ==
    /\ ~running
    /\ serverMain = "returned"
    /\ \E h \in DOMAIN tcpHandlers :
            /\ tcpHandlers[h].pc = "send"
            /\ tcpHandlers[h].bytes_sent < tcpHandlers[h].file_size
    /\ \E h \in DOMAIN udpHandlers :
            /\ ~UdpHandlerFinished(udpHandlers[h])
            /\ Len(udpHandlers[h].sent) = 1

(***************************************************************************)
(* C16: the datagrams on the request socket                                *)
(***************************************************************************)
\* the observer of udp_request_socket notes the datagram recvfrom returns
UdpRequestObserved(d) ==
    /\ UdpRecvRequest(d)
    /\ seen' = d

InitUdpRequests ==
    /\ ServerStarted
    /\ server_udp_port = 5001
    /\ server_tcp_port = 6001
    /\ NothingSeen
    /\ NoClient
    /\ tcpHandlers = <<>>
    /\ udpHandlers = <<>>

\* listen_udp_requests and the main thread
NextUdpRequests ==
    \/ Shutdown
    \/ ProcessExit
    \/ \E d \in RequestDatagrams : UdpRequestObserved(d)
    \/ UdpRecvTimeout
    \/ UdpRecvError

SpecUdpRequests == InitUdpRequests /\ [][NextUdpRequests]_vars

\* the validation of a Request as the specification states it
IsRequest(d) ==
    d.len >= REQUEST_SIZE /\ d.mc = MAGIC_COOKIE /\ d.mt = MSG_TYPE_REQUEST

\* the step that receives the datagram d starts one handler with d's sender
\* and file size if d is a Request, and none otherwise; the loop goes on
C16_Served ==
    (seen' # seen) =>
        /\ udpHandlers' =
                IF IsRequest(seen')
                THEN Append(udpHandlers, NewUdpHandler(seen'.addr, seen'.file_size))
                ELSE udpHandlers
        /\ running => udpLoop' = "recv"

\* C16: the UDP receive loop starts exactly one handler, with the sender's
\* address and the decoded file size, for every datagram of at least 13
\* bytes whose cookie and type match, and none for a datagram that is
\* shorter or whose cookie or type does not match; either way the loop goes
\* on receiving.
C16_RequestsServed == [][C16_Served]_vars

(***************************************************************************)
(* C17: datagrams the UDP transfer discards                                *)
(***************************************************************************)
\* the validation of a PayloadSegment as the specification states it
IsSegment(d) ==
    d.len >= PAYLOAD_HEADER_SIZE /\ d.mc = MAGIC_COOKIE /\ d.mt = MSG_TYPE_PAYLOAD

\* the step in which recvfrom returns a datagram that is too short or of
\* another cookie or type changes none of the counts and leaves the time
\* since the last valid segment running; the loop goes on
C17_Discarded ==
    (seen' # seen /\ ~IsSegment(seen')) =>
        \A k \in DOMAIN threads :
            /\ threads'[k].segments_received = threads[k].segments_received
            /\ threads'[k].total_bytes = threads[k].total_bytes
            /\ threads'[k].total_segments = threads[k].total_segments
            /\ threads'[k].quiet = threads[k].quiet
            /\ threads'[k].pc = threads[k].pc

\* C17: in the receive loop of a UDP transfer a datagram shorter than the
\* 21-byte header, or of another cookie or type, leaves segments_received,
\* total_bytes, total_segments and the time of the last valid receipt
\* unchanged.
C17_InvalidDiscarded == [][C17_Discarded]_vars

\* a short datagram has just been received, a second after the one segment
\* counted so far: the counts stand and the quiet period is still running
C17_Witness ==
    /\ seen # <<>>
    /\ seen.len < PAYLOAD_HEADER_SIZE
    /\ Len(threads) = 1
    /\ threads[1].pc = "recv"
    /\ threads[1].segments_received = 1
    /\ threads[1].total_segments = 3
    /\ threads[1].total_bytes = UDP_PAYLOAD_SIZE
    /\ threads[1].quiet = 1
    /\ threads[1].waited = 0

(***************************************************************************)
(* C18: the numbering of the segments of a UDP transfer                    *)
(***************************************************************************)
\* the segments sent so far are numbered 1, 2, ... in the order of sending
\* and carry the one total of the transfer; a transfer without a failed
\* send ends after the last of them, and one whose send of segment j fails
\* has sent the segments before j and sends nothing more
C18_Numbered ==
    \A h \in DOMAIN udpHandlers :
        LET u == udpHandlers[h] IN
        /\ \A k \in 1..Len(u.sent) :
                /\ u.sent[k].cur = k
                /\ u.sent[k].total = u.total_segments
                /\ u.sent[k].total = CeilDiv(u.file_size, UDP_PAYLOAD_SIZE)
        /\ Len(u.sent) <= u.total_segments
        /\ (u.pc = "done" /\ ~u.failed) => Len(u.sent) = u.total_segments
        /\ u.failed =>
                /\ u.pc = "done"
                /\ Len(u.sent) < u.total_segments
                /\ ~ENABLED UdpHandlerStep(h)

\* a step sends at most the one next segment, and takes none back
C18_OneByOne ==
    \A h \in DOMAIN udpHandlers \cap DOMAIN udpHandlers' :
        LET u == udpHandlers[h]
            v == udpHandlers'[h]
        IN  /\ \/ v.sent = u.sent
               \/ /\ Len(v.sent) = Len(u.sent) + 1
                  /\ SubSeq(v.sent, 1, Len(u.sent)) = u.sent
            /\ (u.pc = "loop" /\ v.failed) => v.sent = u.sent
            /\ (u.total_segments # v.total_segments) => u.pc = "start"

\* C18: the server sends the segments of a UDP transfer with currentSegment
\* 1, 2, ..., k in increasing order without gap or repeat, each carrying
\* the totalSegments computed once for the transfer; k = totalSegments when
\* no send fails, and when the send of segment j fails no segment j or
\* later is sent and the send is not tried again.
C18_SegmentOrder == []C18_Numbered /\ [][C18_OneByOne]_vars

\* a transfer of 2500 bytes whose second send failed: segment 1 of 3 is
\* all that was sent
C18_Witness ==
    /\ Len(udpHandlers) = 1
    /\ udpHandlers[1].file_size = 2500
    /\ udpHandlers[1].failed
    /\ udpHandlers[1].total_segments = 3
    /\ Len(udpHandlers[1].sent) = 1
    /\ udpHandlers[1].sent[1].cur = 1

(***************************************************************************)
(* C19: a lone TCP transfer of the client: one handle_tcp_transfer thread  *)
(* and a peer that sends any chunks, closes or fails at any time.          *)
(***************************************************************************)
\* the file sizes of the lone transfer
TcpReceiveFileSizes == {1, 2500, 5000}

\* the lengths of the chunks recv returns: from one byte to a full buffer
TcpReceiveChunks == RecvChunks \cup {1, 904}

InitTcpReceive ==
    /\ NoServer
    /\ NothingSeen
    /\ file_size \in TcpReceiveFileSizes
    /\ tcp_count = 1
    /\ udp_count = 0
    /\ cpc = "start"
    /\ elapsed = 0
    /\ waited = 0
    /\ data = <<>>
    /\ offer = <<"s1", 5001, 6001>>
    /\ threads = <<NewThread("tcp", 1)>>

\* the observer of the connection notes the chunks recv returns, and how
\* the last call on the socket ended
TcpChunkObserved(k, n) ==
    /\ Len(delivered) < MaxChunks
    /\ TcpRecvChunk(k, n)
    /\ delivered' = Append(delivered, n)
    /\ seen' = [event |-> "chunk"]

TcpClosedObserved(k) ==
    /\ TcpRecvClosed(k)
    /\ seen' = [event |-> "closed"]
    /\ UNCHANGED delivered

TcpErrorObserved(k) ==
    /\ TcpError(k)
    /\ seen' = [event |-> "error"]
    /\ UNCHANGED delivered

NextTcpReceive ==
    \/ TcpConnect(1)
    \/ TcpSendRequest(1)
    \/ \E n \in TcpReceiveChunks : TcpChunkObserved(1, n)
    \/ TcpClosedObserved(1)
    \/ TcpErrorObserved(1)

SpecTcpReceive == InitTcpReceive /\ [][NextTcpReceive]_vars

\* the bytes delivered before the last chunk
BeforeLast(ds) == SumSeq(SubSeq(ds, 1, Len(ds) - 1))

\* C19: the TCP receive loop of the client is running only while fewer than
\* file_size bytes have been received, the peer has not closed and no call
\* has failed, and it stops at the first of the three; the count reported
\* is the number of bytes delivered until then: below file_size after a
\* close or an error, and exactly file_size when the server sent no more
\* than was asked for.
C19_ReceiveLoop ==
    \A k \in DOMAIN threads :
        LET t == threads[k] IN
        t.kind = "tcp" =>
            /\ t.received = SumSeq(delivered)
            /\ t.pc = "recv" =>
                    /\ t.received < file_size
                    /\ seen = <<>> \/ seen.event = "chunk"
            /\ t.pc = "done" =>
                    /\ t.results = 1
                    /\ t.reported = <<SumSeq(delivered)>>
                    /\ seen.event = "chunk" =>
                            /\ t.received >= file_size
                            /\ BeforeLast(delivered) < file_size
                            /\ SumSeq(delivered) <= file_size => t.received = file_size
                    /\ seen.event \in {"closed", "error"} => t.received < file_size

\* the server sent the 5000 bytes asked for, which arrived as 4096 and 904
C19_Witness ==
    /\ file_size = 5000
    /\ Len(threads) = 1
    /\ threads[1].pc = "done"
    /\ delivered = <<4096, 904>>
    /\ seen.event = "chunk"
    /\ threads[1].reported = <<5000>>

\* the server closed the connection after 2500 of the 5000 bytes
C19_WitnessClosed ==
    /\ file_size = 5000
    /\ Len(threads) = 1
    /\ threads[1].pc = "done"
    /\ delivered = <<2500>>
    /\ seen.event = "closed"
    /\ threads[1].reported = <<2500>>

(***************************************************************************)
(* C20: the TCP handler closes its connection                              *)
(***************************************************************************)
\* the paths on which handle_tcp_client returns
TcpExits == {"peer_closed", "invalid_size", "send_error", "sent", "error"}

\* a handler that has returned, on whichever path, has closed its socket,
\* and sends nothing more; one that returned because the peer closed before
\* the newline, or because the size did not parse, has sent no byte
C20_Closed ==
    \A h \in DOMAIN tcpHandlers :
        LET t == tcpHandlers[h] IN
        /\ t.exit # "none" =>
                /\ t.exit \in TcpExits
                /\ t.pc = "closed"
                /\ ~ENABLED TcpHandlerStep(h)
                /\ \A c \in LineBytes \cup {"\n"} : ~ENABLED TcpRecvByte(h, c)
        /\ t.exit = "none" => t.pc \in {"recv", "parse", "send"}
        /\ t.exit \in {"peer_closed", "invalid_size"} =>
                /\ t.wire = 0
                /\ t.writes = <<>>
                /\ t.bytes_sent = 0

\* C20: on every exit path of the TCP handler (the peer closes before a
\* newline, the size does not parse, a send fails, the whole size is sent,
\* any other exception) the accepted connection is closed; when the peer
\* closes before a newline or the size does not parse, the handler has sent
\* no payload byte.
C20_AlwaysClosed == []C20_Closed

\* the size text "x" did not parse: the connection is closed and nothing
\* was sent
C20_Witness ==
    /\ Len(tcpHandlers) = 1
    /\ tcpHandlers[1].data = <<"x", "\n">>
    /\ tcpHandlers[1].exit = "invalid_size"
    /\ tcpHandlers[1].pc = "closed"
    /\ tcpHandlers[1].wire = 0

\* a line with a byte that does not decode ends in the handler of the
\* other exceptions, and the connection is closed
C20_WitnessDecode ==
    /\ Len(tcpHandlers) = 1
    /\ tcpHandlers[1].data = <<NonUtf8, "\n">>
    /\ tcpHandlers[1].exit = "error"
    /\ tcpHandlers[1].pc = "closed"

(***************************************************************************)
(* C21: several UDP flows at once: the UDP transfer threads of one speed   *)
(* test, the server's request loop and its UDP handlers.  The network is   *)
(* what has been sent: a request or a segment that was sent may arrive     *)
(* late, more than once, in any order, or never.                           *)
(***************************************************************************)
\* the file sizes of the flows
FlowFileSizes == {1000, 1500}

\* the flows: one transfer thread for each of the client addresses
Flows == 1..Cardinality(ClientAddrs)

\* the address of the socket of transfer thread k: bind(("0.0.0.0", 0))
\* gives every socket that is open a port of its own
FlowAddr(k) == IF k = 1 THEN "c1" ELSE "c2"

\* struct.pack(REQUEST_STRUCT_FORMAT, MAGIC_COOKIE, MSG_TYPE_REQUEST,
\* file_size), sent from the socket of thread k
FlowRequest(k) ==
    Request(REQUEST_SIZE, MAGIC_COOKIE, MSG_TYPE_REQUEST, file_size, FlowAddr(k))

\* header + dummy_data as it is on the wire
OnWire(seg) ==
    Payload(PAYLOAD_HEADER_SIZE + seg.len, seg.mc, seg.mt, seg.total, seg.cur)

\* what the observer of the sockets of the flows has noted of the datagrams
\* delivered to one of them: their number, their payload bytes, and whether
\* all of them were generated for a request sent from that socket
NoDelivery == [n |-> 0, bytes |-> 0, own |-> TRUE]

InitUdpFlows ==
    /\ ServerStarted
    /\ server_udp_port = 5001
    /\ server_tcp_port = 6001
    /\ offers = <<>>
    /\ seen = <<>>
    /\ delivered = [k \in Flows |-> NoDelivery]
    /\ tcpHandlers = <<>>
    /\ udpHandlers = <<>>
    /\ file_size \in FlowFileSizes
    /\ tcp_count = 0
    /\ udp_count = Cardinality(ClientAddrs)
    /\ cpc = "start"
    /\ elapsed = 0
    /\ waited = 0
    /\ data = <<>>
    /\ offer = <<"s1", 5001, 6001>>
    /\ threads = [k \in Flows |-> NewThread("udp", k)]

\* the request thread k has sent reaches udp_request_socket
FlowRequestArrives(k) ==
    /\ k \in DOMAIN threads
    /\ threads[k].pc \in {"recv", "done"}
    /\ UdpRecvRequest(FlowRequest(k))
    /\ UNCHANGED seen

\* segment i of those handler h has sent reaches the socket it is addressed
\* to, which is that of thread k; the observer notes the delivery
FlowDeliver(k, h, i) ==
    /\ h \in DOMAIN udpHandlers
    /\ i \in DOMAIN udpHandlers[h].sent
    /\ udpHandlers[h].sent[i].to = FlowAddr(k)
    /\ UdpRecvDatagram(k, OnWire(udpHandlers[h].sent[i]))
    /\ delivered' = [delivered EXCEPT ![k] =
            [n |-> @.n + 1,
             bytes |-> @.bytes + udpHandlers[h].sent[i].len,
             own |-> @.own /\ udpHandlers[h].client_addr = FlowAddr(k)]]
    /\ UNCHANGED seen

NextUdpFlows ==
    \/ \E k \in DOMAIN threads : UdpSendRequest(k)
    \/ \E k \in DOMAIN threads : UdpRequestFails(k)
    \/ \E k \in DOMAIN threads : FlowRequestArrives(k)
    \/ \E h \in DOMAIN udpHandlers : UdpHandlerStep(h)
    \/ \E k \in DOMAIN threads : \E h \in DOMAIN udpHandlers :
            \E i \in 1..(MaxSegments + 1) : FlowDeliver(k, h, i)
    \/ \E k \in DOMAIN threads : UdpRecvFails(k)

SpecUdpFlows == InitUdpFlows /\ [][NextUdpFlows]_vars

\* what flow k has counted
FlowCounts(k) ==
    <<threads[k].segments_received, threads[k].total_bytes, threads[k].total_segments>>

\* every segment a handler has sent is addressed to the sender of the
\* request the handler was started for, which is one of the flows, after
\* that flow sent its request
C21_Addressed ==
    \A h \in DOMAIN udpHandlers :
        LET u == udpHandlers[h] IN
        /\ \A i \in DOMAIN u.sent : u.sent[i].to = u.client_addr
        /\ \E k \in Flows :
                /\ FlowAddr(k) = u.client_addr
                /\ threads[k].pc # "request"
                /\ u.file_size = file_size

\* what a flow has counted is what was delivered to its socket, all of it
\* generated for its own request
C21_OwnCounts ==
    \A k \in Flows :
        /\ delivered[k].own
        /\ threads[k].segments_received = delivered[k].n
        /\ threads[k].total_bytes = delivered[k].bytes

\* a step in which nothing is delivered to flow k, whatever the handlers
\* and the other flows do in it, leaves the counts of flow k as they are
C21_Independent ==
    \A k \in Flows :
        delivered'[k] = delivered[k] =>
            /\ threads'[k].segments_received = threads[k].segments_received
            /\ threads'[k].total_bytes = threads[k].total_bytes
            /\ threads'[k].total_segments = threads[k].total_segments

\* C21: with several UDP flows in flight, every segment the server
\* generates for a request is addressed only to the address that sent the
\* request, so the segment count and the byte total of each flow count only
\* segments generated for its own request, however the sends and receives
\* of the other flows interleave.
C21_FlowsApart ==
    /\ []C21_Addressed
    /\ []C21_OwnCounts
    /\ [][C21_Independent]_vars

\* two flows of 1500 bytes are served by a handler each; the first has
\* received both of its segments and the second one of its own
C21_Witness ==
    /\ file_size = 1500
    /\ Len(udpHandlers) = 2
    /\ udpHandlers[1].client_addr # udpHandlers[2].client_addr
    /\ Len(udpHandlers[1].sent) = 2
    /\ Len(udpHandlers[2].sent) = 2
    /\ threads[1].pc = "recv" /\ threads[2].pc = "recv"
    /\ FlowCounts(1) = <<2, 1500, 2>>
    /\ FlowCounts(2) = <<1, 476, 2>>

(***************************************************************************)
(* C22: the flows with their clocks, followed to the end of the transfers  *)
(***************************************************************************)
NextUdpFlowsTimed ==
    \/ \E k \in DOMAIN threads : UdpSendRequest(k)
    \/ \E k \in DOMAIN threads : UdpRequestFails(k)
    \/ \E k \in DOMAIN threads : FlowRequestArrives(k)
    \/ \E h \in DOMAIN udpHandlers : UdpHandlerStep(h)
    \/ \E k \in DOMAIN threads : \E h \in DOMAIN udpHandlers :
            \E i \in 1..(MaxSegments + 1) : FlowDeliver(k, h, i)
    \/ \E k \in DOMAIN threads : UdpQuietTimeout(k)
    \/ \E k \in DOMAIN threads : UdpRecvFails(k)
    \/ Tick

SpecUdpFlowsTimed == InitUdpFlows /\ [][NextUdpFlowsTimed]_vars

\* C22: when a UDP transfer of the client has ended, segments_received <=
\* total_segments if total_segments > 0, so that the success rate is at
\* most 100 %, and total_bytes <= file_size, whatever the network delivers:
\* segments duplicated or out of order, or a request duplicated so that the
\* server runs the transfer twice.
C22_WithinRequest ==
    \A k \in DOMAIN threads :
        LET t == threads[k] IN
        (t.kind = "udp" /\ t.pc = "done") =>
            /\ t.total_segments > 0 => t.segments_received <= t.total_segments
            /\ t.success_rate <= 10000
            /\ t.total_bytes <= file_size
====
